---- MODULE Spec2Model ----
(***************************************************************************)
(* Model of the two crates of the ECMA-402 API surface proposal:           *)
(*                                                                         *)
(*   proposals/ecma402_traits  - traits LanguageIdentifier, AsBCP47,       *)
(*                               weird::Variants, and their sample         *)
(*                               implementation tests::TestID as it is     *)
(*                               driven by tests::return_components;       *)
(*   rfc/002-ecma-402          - enum Opt, trait Locale and its only       *)
(*                               implementation tests::LocImpl, whose      *)
(*                               every method is unimplemented!().         *)
(*                                                                         *)
(* A string is a sequence of one-character strings, so that length,        *)
(* charset and letter case are observable.  Option<T> is a sequence of     *)
(* length 0 (None) or 1 (Some).                                            *)
(***************************************************************************)
EXTENDS Naturals, Sequences, FiniteSets

\* Longest variants vector the model builds.
MaxVariants == 2

\* Longest option slice handed to Locale::new.
MaxOpts == 1

---------------------------------------------------------------------------
\* String literals

s_empty      == << >>
s_en         == <<"e","n">>
s_und        == <<"u","n","d">>
s_US         == <<"U","S">>
s_Latn       == <<"L","a","t","n">>
s_Lat        == <<"L","a","t">>
s_east_coast == <<"e","a","s","t","_","c","o","a","s","t">>
s_west_coast == <<"w","e","s","t","_","c","o","a","s","t">>
s_Valencia   == <<"V","a","l","e","n","c","i","a">>
s_valencia   == <<"v","a","l","e","n","c","i","a">>
s_en_US      == <<"e","n","-","U","S">>
s_en__US     == <<"e","n","-","-","U","S">>

None    == << >>
Some(x) == << x >>

\* Values a struct literal of TestID is given for each field.
LanguageInputs == { s_en, s_und, s_empty }
RegionInputs   == { None, Some(s_US) }
ScriptInputs   == { None, Some(s_Latn) }
VariantInputs  == { s_east_coast, s_west_coast, s_Valencia, s_valencia }

RECURSIVE SeqsUpTo(_, _)
SeqsUpTo(S, n) ==
    IF n = 0 THEN { << >> }
    ELSE LET shorter == SeqsUpTo(S, n - 1)
         IN  shorter \cup { Append(q, x) : q \in shorter, x \in S }

\* Arguments of Locale::new.
TagInputs == { s_en_US, s_en__US, s_empty }
Opt       == [ kind : {"Script", "Region", "HourCycle", "Calendar"},
               val  : { s_Latn, s_Lat } ]

---------------------------------------------------------------------------
\* struct TestID and its trait implementations

TestID == [ language : LanguageInputs,
            region   : RegionInputs,
            script   : ScriptInputs,
            variants : SeqsUpTo(VariantInputs, MaxVariants) ]

\* impl LanguageIdentifier for TestID
language(self) == self.language
region(self)   == self.region
script(self)   == self.script

\* impl Variants for TestID
num_variants(self) == Len(self.variants)

\* The calls for_each_variant makes to its argument, in order:
\* self.variants.iter().map(|s| for_each(s)).for_each(drop)
for_each_variant_skip_last(self) ==
    SubSeq(self.variants, 1, Len(self.variants) - 1)
for_each_variant(self) == self.variants

\* The closure of return_components: variants.insert(s.to_string())
insert(set, s) == set \cup { s }

---------------------------------------------------------------------------
VARIABLES
    pc,            \* position of tests::return_components
    id,            \* the TestID under test
    ret_language,  \* Option: value returned by id.language(), once called
    ret_region,    \* Option<Option>: value returned by id.region()
    ret_script,    \* Option<Option>: value returned by id.script()
    pending,       \* calls for_each_variant has still to make
    calls,         \* number of invocations of the closure so far
    variants,      \* the HashSet the closure collects into
    loc_pc,        \* "idle", or "panicked" once a LocImpl method was called
    loc_call       \* the LocImpl method that panicked

vars == << pc, id, ret_language, ret_region, ret_script,
           pending, calls, variants, loc_pc, loc_call >>

test_vars == << pc, id, ret_language, ret_region, ret_script,
                pending, calls, variants >>
loc_vars  == << loc_pc, loc_call >>

\* The identifier built by return_components itself.
SampleID == [ language |-> s_en, region |-> Some(s_US), script |-> None,
              variants |-> << s_east_coast, s_west_coast >> ]

Init ==
    /\ pc = "start"
    /\ id = SampleID
    /\ ret_language = None
    /\ ret_region = None
    /\ ret_script = None
    /\ pending = << >>
    /\ calls = 0
    /\ variants = {}
    /\ loc_pc = "idle"
    /\ loc_call = "none"

\* let id = TestID { language: .., region: .., script: .., variants: .. };
Construct(t) ==
    /\ pc = "start"
    /\ id' = t
    /\ pc' = "language"
    /\ UNCHANGED << ret_language, ret_region, ret_script,
                    pending, calls, variants >>
    /\ UNCHANGED loc_vars

\* id.language()
CallLanguage ==
    /\ pc = "language"
    /\ ret_language' = Some(language(id))
    /\ pc' = "region"
    /\ UNCHANGED << id, ret_region, ret_script, pending, calls, variants >>
    /\ UNCHANGED loc_vars

\* id.region()
CallRegion ==
    /\ pc = "region"
    /\ ret_region' = Some(region(id))
    /\ pc' = "script"
    /\ UNCHANGED << id, ret_language, ret_script, pending, calls, variants >>
    /\ UNCHANGED loc_vars

\* id.script()
CallScript ==
    /\ pc = "script"
    /\ ret_script' = Some(script(id))
    /\ pc' = "for_each"
    /\ UNCHANGED << id, ret_language, ret_region, pending, calls, variants >>
    /\ UNCHANGED loc_vars

\* let mut variants = HashSet::new(); id.for_each_variant(..) is entered
ForEachBegin ==
    /\ pc = "for_each"
    /\ variants' = {}
    /\ calls' = 0
    /\ pending' = for_each_variant(id)
    /\ pc' = "visiting"
    /\ UNCHANGED << id, ret_language, ret_region, ret_script >>
    /\ UNCHANGED loc_vars

\* one invocation of the closure
ForEachVisit ==
    /\ pc = "visiting"
    /\ pending # << >>
    /\ variants' = insert(variants, Head(pending))
    /\ calls' = calls + 1
    /\ pending' = Tail(pending)
    /\ UNCHANGED << pc, id, ret_language, ret_region, ret_script >>
    /\ UNCHANGED loc_vars

\* the iterator is exhausted and for_each_variant returns
ForEachReturn ==
    /\ pc = "visiting"
    /\ pending = << >>
    /\ pc' = "done"
    /\ UNCHANGED << id, ret_language, ret_region, ret_script,
                    pending, calls, variants >>
    /\ UNCHANGED loc_vars

---------------------------------------------------------------------------
\* impl Locale for LocImpl: every method body is unimplemented!()

LocImplCall(method) ==
    /\ loc_pc = "idle"
    /\ loc_pc' = "panicked"
    /\ loc_call' = method
    /\ UNCHANGED test_vars

LocImplNew(tag, options) == LocImplCall("new")
LocImplLanguage == LocImplCall("language")
LocImplRegion   == LocImplCall("region")
LocImplScript   == LocImplCall("script")

Next ==
    \/ \E t \in TestID : Construct(t)
    \/ CallLanguage
    \/ CallRegion
    \/ CallScript
    \/ ForEachBegin
    \/ ForEachVisit
    \/ ForEachReturn
    \/ \E tag \in TagInputs, options \in SeqsUpTo(Opt, MaxOpts) :
          LocImplNew(tag, options)
    \/ LocImplLanguage
    \/ LocImplRegion
    \/ LocImplScript

Spec == Init /\ [][Next]_vars

---------------------------------------------------------------------------
\* Shapes of subtags, used to state the properties below

UpperChars == <<"A","B","C","D","E","F","G","H","I","J","K","L","M",
                "N","O","P","Q","R","S","T","U","V","W","X","Y","Z">>
LowerChars == <<"a","b","c","d","e","f","g","h","i","j","k","l","m",
                "n","o","p","q","r","s","t","u","v","w","x","y","z">>
DigitChars == <<"0","1","2","3","4","5","6","7","8","9">>

InSeq(c, q) == \E k \in 1..Len(q) : q[k] = c
IsAlnum(c)  == InSeq(c, UpperChars) \/ InSeq(c, LowerChars) \/ InSeq(c, DigitChars)

ToLowerChar(c) ==
    IF InSeq(c, UpperChars)
    THEN LowerChars[CHOOSE k \in 1..26 : UpperChars[k] = c]
    ELSE c
ToLower(s) == [ k \in 1..Len(s) |-> ToLowerChar(s[k]) ]

\* a variant subtag: 4 to 8 alphanumeric characters
ValidVariant(s) ==
    /\ Len(s) >= 4
    /\ Len(s) <= 8
    /\ \A k \in 1..Len(s) : IsAlnum(s[k])

VariantSet(self) == { self.variants[k] : k \in 1..Len(self.variants) }

---------------------------------------------------------------------------
\* C1: language() returns a non-empty string for every identifier that was
\* constructed, and returns "und" when the identifier has no language subtag.
C1_LanguageNeverEmpty ==
    ret_language # None =>
        /\ ret_language[1] # s_empty
        /\ (id.language = s_empty => ret_language[1] = s_und)

\* C2: when for_each_variant has returned, the closure was invoked exactly
\* num_variants() times and the set of strings it was passed is the set of
\* the identifier's variants.
C2_VisitOncePerVariant ==
    pc = "done" =>
        /\ calls = num_variants(id)
        /\ variants = VariantSet(id)

\* for_each_variant returned after visiting two different variants
C2_Witness ==
    /\ pc = "done"
    /\ num_variants(id) = 2
    /\ Cardinality(variants) = 2

\* C7: an identifier never holds two variants that are equal when compared
\* case-insensitively, and every variant it reports to the visitor is a
\* valid variant subtag.
C7_VariantsValidDistinct ==
    pc # "start" =>
        /\ \A j, k \in 1..Len(id.variants) :
              j # k => ToLower(id.variants[j]) # ToLower(id.variants[k])
        /\ \A v \in variants : ValidVariant(v)

====
